---- MODULE Spec2Model ----
(***************************************************************************)
(* Model of the data packager of eco-python (src/iodat/packager.py) and of *)
(* the reader of the package metadata document                             *)
(* (src/eco/entities/datapackage.py).                                      *)
(*                                                                         *)
(* The persistent state is a set of package directories, each holding      *)
(* resource files (<name>.csv) and a metadata file (datapackage.json).     *)
(* build_package and update_package are split at the points where they     *)
(* touch the file system, so that a failure between two writes and a       *)
(* reader running between two writes are behaviours of the model.          *)
(***************************************************************************)
EXTENDS Naturals, Integers, Sequences, FiniteSets, TLC

\* ------------------------------------------------------------------ bounds
MaxCalls == 3      \* number of packager calls in one behaviour
MaxIds   == 4      \* number of distinct values uuid4() can return
MaxLen   == 2      \* longest annotation/view list passed to a call

\* --------------------------------------------------------------- universe
Procs    == {"p1", "p2"}
Dirs     == {"d1", "d2"}
ResNames == {"r1", "r2"}
Ids      == 1..MaxIds

\* ----------------------------------------------------- python/JSON values
\* A key of a python dict: a str or an int (yaml and python callers can
\* build dicts with integer keys).
StrKey(v) == [t |-> "str", v |-> v]
IntKey(v) == [t |-> "int", v |-> v]

\* A dict maps each key to a payload; the payload of a key is its text.
Dict(S) == [k \in S |-> k.v]

\* The values that travel through the packager: a dict, a str, or a
\* pathlib.Path object.
DictVal(S) == [k |-> "dict", s |-> "", d |-> Dict(S)]
StrVal(x)  == [k |-> "str",  s |-> x,  d |-> Dict({})]
PathVal(x) == [k |-> "path", s |-> x,  d |-> Dict({})]

\* Result of a step that can raise.
Ok(v)    == [ok |-> TRUE,  err |-> "",  val |-> v]
Raise(e) == [ok |-> FALSE, err |-> e,   val |-> StrVal("")]

\* ----------------------------------------------- files the caller refers to
\* Files that exist in the caller's working directory (annotation text,
\* view specs, metadata); they are never written by the packager.
UserFiles == {"overview.md", "scatterplot.json", "meta.yml"}

os_path_exists(name) == name \in UserFiles

\* fp.read(): the text of a file.
FileText(name) ==
  CASE name = "overview.md"      -> "# overview"
    [] name = "scatterplot.json" -> "{mark: mark}"
    [] OTHER                     -> "title: title"

\* json.load(fp) / yaml.load(fp) on a user file.
FileDoc(name) ==
  CASE name = "scatterplot.json" -> Ok(DictVal({StrKey("mark")}))
    [] name = "meta.yml"         -> Ok(DictVal({StrKey("title")}))
    [] OTHER                     -> Raise("JSONDecodeError")

\* -------------------------------------------------------------- json.dump
KeyTypes(d) == {k.t : k \in DOMAIN d}

\* json.dump(..., sort_keys=True) raises TypeError on a Path object and on
\* a dict whose keys cannot be ordered (str mixed with int).
Serializable(v) == v.k # "path" /\ Cardinality(KeyTypes(v.d)) <= 1

JsonKey(k) == StrKey(k.v)

\* A dict as it is written: every key becomes a string.
JsonDict(d) ==
  [j \in {JsonKey(k) : k \in DOMAIN d} |->
      d[CHOOSE k \in DOMAIN d : JsonKey(k) = j]]

JsonValue(v) == [v EXCEPT !.d = JsonDict(@)]

\* --------------------------------------------------- Packager: pure parts
Version == "0.1"

\* Profiles listed as allowed by the base schema io.yml.
AllowedProfiles == {"biodat"}

\* Packager._parse_metadata: a str or Path is a file to load, a dict is
\* returned as is.
_parse_metadata(mdata) ==
  IF mdata.k \in {"str", "path"}
  THEN IF ~os_path_exists(mdata.s)
       THEN Raise("Unable to find metadata at specified location!")
       ELSE LET doc == FileDoc(mdata.s)
            IN  IF doc.ok THEN doc ELSE Raise("AssertionError")
  ELSE Ok(mdata)

\* Packager._validate_metadata: the outcomes the call can have.  The base
\* schema is extended with a required dict named after the profile, so
\* metadata without that key never validates; with the key present the
\* outcome rests on the schema files, which are data outside the code.
_validate_metadata(mdata, profile) ==
  IF profile \notin AllowedProfiles THEN {"Unrecognized profile specified!"}
  ELSE IF StrKey(profile) \notin DOMAIN mdata.d THEN {"mdata validation failed!"}
  ELSE {"ok", "mdata validation failed!"}

\* The fields of the biodat profile that its users rely on (cli.py lines
\* 103-105 read pkg.biodat['species'] without a test).
ProfileFields == {"species"}

\* validator_errors with the profile's fields merged into the top level of
\* the base schema: a missing field of the profile is reported by name.
validator_errors_flat(mdata, profile) ==
  {{}} \cup {{<<f>>} : f \in ProfileFields}

\* _validate_metadata lines 300-314: validator.errors after the one call
\* validator.validate(mdata, schema), as the set of fields reported; the
\* set of reports the call can give.  The profile schema sits under the
\* required key schema[profile]: when that key is missing from the
\* metadata it is the field reported, and the rules below it are not
\* applied; when it is there, the report is empty or names a field below.
validator_errors(mdata, profile) ==
  IF StrKey(profile) \notin DOMAIN mdata.d THEN {{<<profile>>}}
  ELSE {{}} \cup {{<<profile, f>>} : f \in ProfileFields}

\* parse_annotation that never reads the file an entry names.
parse_annotation_verbatim(annot) ==
  IF annot.k = "path" /\ ~os_path_exists(annot.s)
  THEN Raise("Invalid annotation path provided")
  ELSE Ok(StrVal(annot.s))

\* Packager.parse_annotation
parse_annotation(annot) ==
  IF os_path_exists(annot.s)
  THEN Ok(StrVal(FileText(annot.s)))
  ELSE IF annot.k = "path"
       THEN Raise("Invalid annotation path provided")
       ELSE Ok(annot)

\* Packager.parse_view
parse_view(view) ==
  IF view.k \in {"str", "path"} /\ os_path_exists(view.s)
  THEN FileDoc(view.s)
  ELSE Ok(view)

\* create_node that stores an annotation it cannot resolve as the entry's
\* own string instead of raising.
create_node_keeps_bad_path(annotations, views, action, now, node_mdata) ==
  LET pa  == [i \in 1..Len(annotations) |->
                IF parse_annotation(annotations[i]).ok
                THEN parse_annotation(annotations[i])
                ELSE Ok(StrVal(annotations[i].s))]
      pv  == [i \in 1..Len(views) |-> parse_view(views[i])]
      badv == {i \in 1..Len(views) : ~pv[i].ok}
  IN  IF badv # {}
      THEN Raise(pv[CHOOSE i \in badv : \A j \in badv : i <= j].err)
      ELSE [ok |-> TRUE, err |-> "",
            val |-> [name     |-> "io-python",
                     action   |-> action,
                     time     |-> now,
                     version  |-> Version,
                     annot    |-> [i \in 1..Len(annotations) |-> pa[i].val.s],
                     views    |-> [i \in 1..Len(views) |-> pv[i].val],
                     metadata |-> node_mdata]]

\* Packager.create_node, followed by node['metadata'] = node_mdata.
\* Raises what the first failing parse_annotation/parse_view raises.
create_node(annotations, views, action, now, node_mdata) ==
  LET pa  == [i \in 1..Len(annotations) |-> parse_annotation(annotations[i])]
      pv  == [i \in 1..Len(views) |-> parse_view(views[i])]
      bad == {i \in 1..Len(annotations) : ~pa[i].ok}
      badv == {i \in 1..Len(views) : ~pv[i].ok}
  IN  IF bad # {}
      THEN Raise(pa[CHOOSE i \in bad : \A j \in bad : i <= j].err)
      ELSE IF badv # {}
      THEN Raise(pv[CHOOSE i \in badv : \A j \in badv : i <= j].err)
      ELSE [ok |-> TRUE, err |-> "",
            val |-> [name     |-> "io-python",
                     action   |-> action,
                     time     |-> now,
                     version  |-> Version,
                     annot    |-> [i \in 1..Len(annotations) |-> pa[i].val.s],
                     views    |-> [i \in 1..Len(views) |-> pv[i].val],
                     metadata |-> node_mdata]]

\* ------------------------------------------------------------- documents
NoNodes == [i \in {} |-> 0]

\* The "io-dag" section of a document.  `metadata` stands for the dataset
\* identity block kept in the same section ("none": no such block).
NoDag == [uuid |-> 0, nodes |-> NoNodes, edges |-> <<>>, metadata |-> "none"]

\* A datapackage.json file: absent, half written (opened for writing and
\* not completely dumped), or a complete document.
\* ns is the top-level key under which the document keeps `dag`, "" when
\* it has no such section; hasDag says that the key is "io-dag".
Absent  == [kind |-> "absent",  hasDag |-> FALSE, ns |-> "", resources |-> {},
            dag |-> NoDag]
Partial == [kind |-> "partial", hasDag |-> FALSE, ns |-> "", resources |-> {},
            dag |-> NoDag]

\* pkg["io-dag"] = ...: packager.py lines 97 and 194.
PackagerNamespace == "io-dag"

Doc(resources, dag) ==
  [kind |-> "doc", hasDag |-> TRUE, ns |-> PackagerNamespace,
   resources |-> resources, dag |-> dag]

\* Can json.dump write the package?
NodeSerializable(n) ==
  /\ Serializable(n.metadata)
  /\ \A i \in 1..Len(n.views) : Serializable(n.views[i])

PkgSerializable(pkg) ==
  \A i \in DOMAIN pkg.dag.nodes : NodeSerializable(pkg.dag.nodes[i])

JsonNode(n) ==
  [n EXCEPT !.metadata = JsonValue(@),
            !.views = [i \in 1..Len(n.views) |-> JsonValue(n.views[i])]]

\* json.dump(pkg, fp, indent=2, sort_keys=True): the document as written.
json_dump(pkg) ==
  [pkg EXCEPT !.dag.nodes = [i \in DOMAIN pkg.dag.nodes |-> JsonNode(pkg.dag.nodes[i])]]

\* ------------------------------------------------------------------ state
VARIABLES
  meta,      \* meta[d]: the file d/datapackage.json
  csv,       \* csv[d][r]: 0 if d/r.csv is absent, else the call that wrote it
  clock,     \* number of packager calls started so far (also utcnow())
  pc,        \* pc[p]: where process p is inside its packager call
  call,      \* call[p]: the arguments of the running call
  loc,       \* loc[p]: the local variables of the running call
  last,      \* last[p]: arguments and outcome of the call that p finished last
  snap,      \* snap[p]: the output directory as it was when the call began
  chain \* chain[d]: N if d/datapackage.json was produced by one
         \*   build_package and N update_package calls, each reading the
         \*   document the previous one wrote; -1 otherwise

\* The command line reader (eco/cli.py, eco/entities/datapackage.py).
VARIABLE
  cli        \* the directory the command is pointed at, and how far the
             \*   command got: the parsed path, the loaded DataPackage, the
             \*   last accessor call and its result

vars == <<meta, csv, clock, pc, call, loc, last, snap, chain, cli>>

\* The variables of the packager.
pvars == <<meta, csv, clock, pc, call, loc, last, snap, chain>>

\* ------------------------------------------------------------ call inputs
SeqsUpTo(S, n) == UNION {[1..m -> S] : m \in 0..n}

AnnotEntries ==
  {StrVal("note"), StrVal("overview.md"), PathVal("overview.md"), PathVal("gone.md")}

ViewEntries ==
  {DictVal({StrKey("test")}), DictVal({IntKey("1")}),
   PathVal("scatterplot.json"), PathVal("gone.json"), StrVal("gone.json")}

MetaInputs ==
  {DictVal({}), DictVal({StrKey("biodat")}), DictVal({IntKey("1")}),
   DictVal({StrKey("a"), IntKey("1")}), PathVal("meta.yml"), PathVal("gone.yml")}

NoCall ==
  [op |-> "none", pkg_dir |-> "d1", existing |-> "d1", resources |-> {},
   annotations |-> <<>>, views |-> <<>>, metadata |-> DictVal({}),
   dag_metadata |-> DictVal({}), profile |-> "", kwargs |-> "none"]

\* build_package(resources, annotations, views, node_metadata, dag_metadata,
\*               profile, pkg_dir)
BuildArgs(res, ann, vws, md, dmd, prof, dir) ==
  [NoCall EXCEPT !.op = "build", !.pkg_dir = dir, !.resources = res,
                 !.annotations = ann, !.views = vws, !.metadata = md,
                 !.dag_metadata = dmd, !.profile = prof]

\* update_package(existing, resources, annotations, views, metadata,
\*                profile, pkg_dir, **kwargs).  kwargs is "none" or k, for the
\* single extra keyword argument k = k.
UpdateArgs(ex, res, ann, vws, md, prof, dir, kw) ==
  [NoCall EXCEPT !.op = "update", !.pkg_dir = dir, !.existing = ex,
                 !.resources = res, !.annotations = ann, !.views = vws,
                 !.metadata = md, !.profile = prof, !.kwargs = kw]

\* The inputs of the calls of Spec, <<resources, annotations, views,
\* metadata, profile>>: the plain successful ones, and one for every way
\* a call can fail.
Inputs ==
  { <<{},     <<>>,                   <<>>, DictVal({}), "">>,
    <<{"r1"}, <<StrVal("note")>>,     <<>>, DictVal({}), "">>,
    <<{"r1"}, <<PathVal("gone.md")>>, <<>>, DictVal({}), "">>,
    <<{},     <<>>, <<PathVal("gone.json")>>, DictVal({}), "">>,
    <<{"r1"}, <<>>, <<>>, DictVal({}), "biodat">>,
    <<{},     <<>>, <<>>, DictVal({StrKey("biodat")}), "biodat">>,
    <<{},     <<>>, <<>>, DictVal({}), "other">>,
    <<{},     <<>>, <<>>, PathVal("gone.yml"), "">> }

\* Calls whose output directory is OutDir; update_package reads the
\* existing document of any directory.
OutDir == "d1"

Args ==
  {BuildArgs(c[1], c[2], c[3], c[4], DictVal({}), c[5], OutDir) : c \in Inputs}
  \cup
  {UpdateArgs(ex, c[1], c[2], c[3], c[4], c[5], OutDir, "none") :
     ex \in Dirs, c \in Inputs}
  \cup
  {UpdateArgs(ex, {}, <<>>, <<>>, DictVal({}), "", OutDir, "Z") : ex \in Dirs}
  \cup
  {BuildArgs({}, <<>>, <<>>, DictVal({}), DictVal({StrKey("title")}), "", OutDir),
   [BuildArgs({}, <<>>, <<>>, DictVal({}), DictVal({}), "", OutDir)
      EXCEPT !.kwargs = "Z"]}

\* --------------------------------------------------------------- initial
NoNode ==
  [name |-> "", action |-> "", time |-> 0, version |-> "", annot |-> <<>>,
   views |-> <<>>, metadata |-> DictVal({})]

NoLoc == [pending |-> {}, mdata |-> DictVal({}), node |-> NoNode,
          existing_mdata |-> Absent, base |-> -1, pkg |-> Absent]

NoLast == [args |-> NoCall, result |-> "none", existing_mdata |-> Absent,
           errors |-> {}]

NoSnap == [meta |-> Absent, csv |-> [r \in ResNames |-> 0]]

\* No command has run.
NoPath == [dir |-> "", base |-> ""]
Unset  == Raise("unset")
NoGot  == [node_uuid |-> 0, result |-> Unset]

NoCli == [files |-> {}, doc |-> Absent, path |-> NoPath, pkg_path |-> Unset,
          pkg |-> Unset, get_annots |-> NoGot, get_views |-> NoGot]

\* A package made before the behaviour starts, in the layout of the
\* document format: one root node, and a dataset identity block.
SeedNode == [NoNode EXCEPT !.name = "io-python", !.action = "build_package",
                           !.version = Version]

SeedDoc(ident) ==
  Doc({}, [uuid |-> 1, nodes |-> [i \in {1} |-> SeedNode], edges |-> <<>>,
           metadata |-> ident])

\* A JSON document without an "io-dag" section.
ForeignDoc == [Absent EXCEPT !.kind = "doc"]

Seeds == {Absent, SeedDoc("X"), ForeignDoc}

Init ==
  /\ \E f \in Seeds : meta = [d \in Dirs |-> IF d = OutDir THEN Absent ELSE f]
  /\ csv = [d \in Dirs |-> [r \in ResNames |-> 0]]
  /\ clock = 0
  /\ pc = [p \in Procs |-> "idle"]
  /\ call = [p \in Procs |-> NoCall]
  /\ loc = [p \in Procs |-> NoLoc]
  /\ last = [p \in Procs |-> NoLast]
  /\ snap = [p \in Procs |-> NoSnap]
  /\ chain = [d \in Dirs |-> -1]
  /\ cli = NoCli

\* ---------------------------------------------------------------- actions
\* build_package lines 28-35 declare no **kwargs: a keyword argument
\* outside the signature is refused when the call is bound, before the
\* body runs.  update_package line 128 accepts any.
UnexpectedKeyword == "TypeError: unexpected keyword argument"

\* build_package lines 59-65, update_package lines 160-168: parse the
\* node-level (and, for build, DAG-level) metadata, then validate when a
\* profile is named.  The set of outcomes: "ok" or what is raised.
Precheck(a) ==
  LET node_mdata == _parse_metadata(a.metadata)
      dag_mdata  == _parse_metadata(a.dag_metadata)
  IN  IF a.op = "build" /\ a.kwargs # "none" THEN {UnexpectedKeyword}
      ELSE IF ~node_mdata.ok THEN {node_mdata.err}
      ELSE IF a.op = "build" /\ ~dag_mdata.ok THEN {dag_mdata.err}
      ELSE IF a.profile # "" THEN _validate_metadata(node_mdata.val, a.profile)
      ELSE {"ok"}

\* print(validator.errors), line 313: what a call that stops with outcome
\* o reports about the fields of its metadata.
Report(a, o) ==
  IF o = "mdata validation failed!"
  THEN validator_errors(_parse_metadata(a.metadata).val, a.profile) \ {{}}
  ELSE {{}}

\* build_dag with the frontier pointer left unset.
build_dag_no_frontier(node_uuid, node) ==
  [uuid  |-> 0,
   nodes |-> [i \in {node_uuid} |-> node],
   edges |-> <<>>,
   metadata |-> "none"]

\* build_package lines 96-103: the io-dag section of a new package.
build_dag(node_uuid, node) ==
  [uuid  |-> node_uuid,
   nodes |-> [i \in {node_uuid} |-> node],
   edges |-> <<>>,
   metadata |-> "none"]

\* update_dag without line 201: the new node is not stored.
update_dag_no_node(existing_dag, node_uuid, node, kwargs) ==
  [uuid  |-> node_uuid,
   nodes |-> existing_dag.nodes,
   edges |-> Append(existing_dag.edges,
                    [source |-> existing_dag.uuid, target |-> node_uuid]),
   metadata |-> existing_dag.metadata]

\* update_dag that lets the extra keyword arguments rename the dataset.
update_dag_kwargs(existing_dag, node_uuid, node, kwargs) ==
  [uuid  |-> node_uuid,
   nodes |-> [i \in (DOMAIN existing_dag.nodes) \cup {node_uuid} |->
                IF i = node_uuid THEN node ELSE existing_dag.nodes[i]],
   edges |-> Append(existing_dag.edges,
                    [source |-> existing_dag.uuid, target |-> node_uuid]),
   metadata |-> IF kwargs # "none" THEN kwargs ELSE existing_dag.metadata]

\* update_package lines 193-205: the io-dag section of the existing
\* document with the new node linked after the previous frontier.
update_dag(existing_dag, node_uuid, node, kwargs) ==
  [uuid  |-> node_uuid,
   nodes |-> [i \in (DOMAIN existing_dag.nodes) \cup {node_uuid} |->
                IF i = node_uuid THEN node ELSE existing_dag.nodes[i]],
   edges |-> Append(existing_dag.edges,
                    [source |-> existing_dag.uuid, target |-> node_uuid]),
   metadata |-> existing_dag.metadata]

\* frictionless.describe_package("*.csv", basepath=pkg_dir): one resource
\* per csv file found in the directory.
describe_package(dir) == {r \in ResNames : csv[dir][r] # 0}

\* The ids present in a metadata file or in a package being assembled.
UsedIds ==
  UNION ({DOMAIN meta[d].dag.nodes : d \in Dirs}
         \cup {DOMAIN loc[p].pkg.dag.nodes : p \in Procs})

\* str(uuid.uuid4()): any id.  Ids that are in use nowhere are
\* interchangeable, so the least of them stands for all of them.
uuid4 ==
  UsedIds \cup {i \in Ids \ UsedIds : \A j \in Ids \ UsedIds : i <= j}

\* The call of p returns or raises.
Finish(p, result) ==
  /\ pc'   = [pc EXCEPT ![p] = "idle"]
  /\ last' = [last EXCEPT ![p] = [args |-> call[p], result |-> result,
                                   existing_mdata |-> loc[p].existing_mdata,
                                   errors |-> {}]]
  /\ call' = [call EXCEPT ![p] = NoCall]
  /\ loc'  = [loc EXCEPT ![p] = NoLoc]

\* A call with arguments from A starts and its metadata passes parsing
\* and validation.
Invoke(p, A) ==
  /\ pc[p] = "idle"
  /\ clock < MaxCalls
  /\ \E a \in A :
       /\ "ok" \in Precheck(a)
       /\ call' = [call EXCEPT ![p] = a]
       /\ loc'  = [loc EXCEPT ![p] = [NoLoc EXCEPT !.pending = a.resources,
                                        !.mdata = _parse_metadata(a.metadata).val]]
       /\ snap' = [snap EXCEPT ![p] = [meta |-> meta[a.pkg_dir], csv |-> csv[a.pkg_dir]]]
  /\ clock' = clock + 1
  /\ pc'   = [pc EXCEPT ![p] = "resources"]
  /\ UNCHANGED <<meta, csv, last, chain>>
  /\ UNCHANGED cli

\* InvokeRejected with the metadata file opened for writing before the
\* metadata is validated.
InvokeRejected_after_open(p, A) ==
  /\ pc[p] = "idle"
  /\ clock < MaxCalls
  /\ \E a \in A :
       /\ \E o \in Precheck(a) :
            /\ o # "ok"
            /\ \E e \in Report(a, o) :
                 last' = [last EXCEPT ![p] = [args |-> a, result |-> o,
                                              existing_mdata |-> Absent,
                                              errors |-> e]]
       /\ snap' = [snap EXCEPT ![p] = [meta |-> meta[a.pkg_dir], csv |-> csv[a.pkg_dir]]]
       /\ meta' = [meta EXCEPT ![a.pkg_dir] = Partial]
  /\ clock' = clock + 1
  /\ UNCHANGED <<csv, pc, call, loc, chain>>
  /\ UNCHANGED cli

\* A call with arguments from A starts and is stopped by metadata parsing
\* or validation.
InvokeRejected(p, A) ==
  /\ pc[p] = "idle"
  /\ clock < MaxCalls
  /\ \E a \in A :
       /\ \E o \in Precheck(a) :
            /\ o # "ok"
            /\ \E e \in Report(a, o) :
                 last' = [last EXCEPT ![p] = [args |-> a, result |-> o,
                                              existing_mdata |-> Absent,
                                              errors |-> e]]
       /\ snap' = [snap EXCEPT ![p] = [meta |-> meta[a.pkg_dir], csv |-> csv[a.pkg_dir]]]
  /\ clock' = clock + 1
  /\ UNCHANGED <<meta, csv, pc, call, loc, chain>>
  /\ UNCHANGED cli

\* Lines 73-75 / 173-175: one resource is written to <pkg_dir>/<name>.csv.
WriteResource(p) ==
  /\ pc[p] = "resources"
  /\ \E r \in loc[p].pending :
       /\ csv' = [csv EXCEPT ![call[p].pkg_dir][r] = clock]
       /\ loc' = [loc EXCEPT ![p].pending = @ \ {r}]
  /\ UNCHANGED <<meta, clock, pc, call, last, snap, chain>>
  /\ UNCHANGED cli

NewNode(p) ==
  create_node(call[p].annotations, call[p].views,
              IF call[p].op = "build" THEN "build_package" ELSE "update_package",
              clock, loc[p].mdata)

\* CreateNode that does not wait for the resource files: the package is
\* assembled and written while resources are still to be written.
CreateNode_early(p) ==
  /\ pc[p] = "resources"
  /\ NewNode(p).ok
  /\ IF call[p].op = "build"
     THEN \E node_uuid \in uuid4 :
            /\ loc' = [loc EXCEPT ![p].node = NewNode(p).val,
                                  ![p].pkg = Doc(describe_package(call[p].pkg_dir),
                                                 build_dag(node_uuid, NewNode(p).val))]
            /\ pc' = [pc EXCEPT ![p] = "open"]
     ELSE /\ loc' = [loc EXCEPT ![p].node = NewNode(p).val,
                                ![p].pkg = Doc(describe_package(call[p].pkg_dir), NoDag)]
          /\ pc' = [pc EXCEPT ![p] = "load"]
  /\ UNCHANGED <<meta, csv, clock, call, last, snap, chain>>
  /\ UNCHANGED cli

\* Lines 78-103 (build): describe the directory, draw the uuid, create the
\* node and assemble the package.  Lines 178-181 (update): describe the
\* directory and create the node.
CreateNode(p) ==
  /\ pc[p] = "resources"
  /\ loc[p].pending = {}
  /\ NewNode(p).ok
  /\ IF call[p].op = "build"
     THEN \E node_uuid \in uuid4 :
            /\ loc' = [loc EXCEPT ![p].node = NewNode(p).val,
                                  ![p].pkg = Doc(describe_package(call[p].pkg_dir),
                                                 build_dag(node_uuid, NewNode(p).val))]
            /\ pc' = [pc EXCEPT ![p] = "open"]
     ELSE /\ loc' = [loc EXCEPT ![p].node = NewNode(p).val,
                                ![p].pkg = Doc(describe_package(call[p].pkg_dir), NoDag)]
          /\ pc' = [pc EXCEPT ![p] = "load"]
  /\ UNCHANGED <<meta, csv, clock, call, last, snap, chain>>
  /\ UNCHANGED cli

\* create_node raises (parse_annotation or parse_view).
CreateNodeFails(p) ==
  /\ pc[p] = "resources"
  /\ loc[p].pending = {}
  /\ ~NewNode(p).ok
  /\ Finish(p, NewNode(p).err)
  /\ UNCHANGED <<meta, csv, clock, snap, chain>>
  /\ UNCHANGED cli

\* DataPackage.__init__ lines 14-22: what a reader gets when it opens and
\* parses the metadata file.
DataPackage_init(f) ==
  CASE f.kind = "absent"  -> "FileNotFoundError"
    [] f.kind = "partial" -> "JSONDecodeError"
    [] OTHER              -> "ok"

\* pkg['eco'][...]: datapackage.py lines 25-38.
ReaderNamespace == "eco"

\* DataPackage.__init__ lines 12-48: the object a reader gets from the
\* metadata file, or what is raised.  The provenance section is looked up
\* under "eco", and must hold an identity block `metadata`.
DataPackage(f) ==
  IF DataPackage_init(f) # "ok" THEN Raise(DataPackage_init(f))
  ELSE IF f.ns # ReaderNamespace THEN Raise("KeyError")
  ELSE IF f.dag.metadata = "none" THEN Raise("KeyError")
  ELSE Ok([uuid  |-> f.dag.uuid,
           dag   |-> [nodes |-> f.dag.nodes, edges |-> f.dag.edges],
           focus |-> f.dag.uuid])

\* update_package lines 184-194: what loading the existing document gives.
LoadOutcome(f) ==
  CASE f.kind = "absent"  -> "Invalid path to existing data package provided"
    [] f.kind = "partial" -> "JSONDecodeError"
    [] ~f.hasDag          -> "KeyError"
    [] OTHER              -> "ok"

\* update_package lines 184-205: load the existing document, draw the
\* uuid and link the new node.
LoadExisting(p) ==
  /\ pc[p] = "load"
  /\ LoadOutcome(meta[call[p].existing]) = "ok"
  /\ \E node_uuid \in uuid4 :
       loc' = [loc EXCEPT ![p].existing_mdata = meta[call[p].existing],
                          ![p].base = chain[call[p].existing],
                          ![p].pkg = [@ EXCEPT !.dag =
                             update_dag(meta[call[p].existing].dag, node_uuid,
                                        loc[p].node, call[p].kwargs)]]
  /\ pc' = [pc EXCEPT ![p] = "open"]
  /\ UNCHANGED <<meta, csv, clock, call, last, snap, chain>>
  /\ UNCHANGED cli

\* LoadExistingFails with the output file opened for writing before the
\* existing document is loaded.
LoadExistingFails_after_open(p) ==
  /\ pc[p] = "load"
  /\ LoadOutcome(meta[call[p].existing]) # "ok"
  /\ Finish(p, LoadOutcome(meta[call[p].existing]))
  /\ meta' = [meta EXCEPT ![call[p].pkg_dir] = Partial]
  /\ UNCHANGED <<csv, clock, snap, chain>>
  /\ UNCHANGED cli

\* update_package lines 184-194: the existing path does not exist, or
\* json.load or the lookup of "io-dag" raises.
LoadExistingFails(p) ==
  /\ pc[p] = "load"
  /\ LoadOutcome(meta[call[p].existing]) # "ok"
  /\ Finish(p, LoadOutcome(meta[call[p].existing]))
  /\ UNCHANGED <<meta, csv, clock, snap, chain>>
  /\ UNCHANGED cli

\* Lines 123 / 208: open(<pkg_dir>/datapackage.json, "w") truncates the file.
OpenMeta(p) ==
  /\ pc[p] = "open"
  /\ meta' = [meta EXCEPT ![call[p].pkg_dir] = Partial]
  /\ chain' = [chain EXCEPT ![call[p].pkg_dir] = -1]
  /\ pc' = [pc EXCEPT ![p] = "dump"]
  /\ UNCHANGED <<csv, clock, call, loc, last, snap>>
  /\ UNCHANGED cli

\* DumpMeta of an update_package that writes the document back to the file
\* it was loaded from.
DumpMeta_in_place(p) ==
  /\ pc[p] = "dump"
  /\ PkgSerializable(loc[p].pkg)
  /\ LET dir == IF call[p].op = "update" THEN call[p].existing ELSE call[p].pkg_dir
     IN  /\ meta' = [meta EXCEPT ![dir] = json_dump(loc[p].pkg)]
         /\ chain' = [chain EXCEPT ![dir] =
                        IF call[p].op = "build" THEN 0
                        ELSE IF loc[p].base >= 0 THEN loc[p].base + 1 ELSE -1]
  /\ Finish(p, "ok")
  /\ UNCHANGED <<csv, clock, snap>>
  /\ UNCHANGED cli

\* Lines 124 / 209: json.dump writes the whole document; the file is closed.
DumpMeta(p) ==
  /\ pc[p] = "dump"
  /\ PkgSerializable(loc[p].pkg)
  /\ meta' = [meta EXCEPT ![call[p].pkg_dir] = json_dump(loc[p].pkg)]
  /\ chain' = [chain EXCEPT ![call[p].pkg_dir] =
                 IF call[p].op = "build" THEN 0
                 ELSE IF loc[p].base >= 0 THEN loc[p].base + 1 ELSE -1]
  /\ Finish(p, "ok")
  /\ UNCHANGED <<csv, clock, snap>>
  /\ UNCHANGED cli

\* json.dump raises TypeError part-way; the file keeps what was written.
DumpMetaFails(p) ==
  /\ pc[p] = "dump"
  /\ ~PkgSerializable(loc[p].pkg)
  /\ Finish(p, "TypeError")
  /\ UNCHANGED <<meta, csv, clock, snap, chain>>
  /\ UNCHANGED cli

Step(p) ==
  \/ WriteResource(p)
  \/ CreateNode(p)
  \/ CreateNodeFails(p)
  \/ LoadExisting(p)
  \/ LoadExistingFails(p)
  \/ OpenMeta(p)
  \/ DumpMeta(p)
  \/ DumpMetaFails(p)

\* One writer: the packager is single-process.
Next ==
  \/ Invoke("p1", Args)
  \/ InvokeRejected("p1", Args)
  \/ Step("p1")

Spec == Init /\ [][Next]_vars

\* ---------------------------------------- one build_package call, any input
AnnotLists == SeqsUpTo(AnnotEntries, MaxLen)
ViewLists  == SeqsUpTo(ViewEntries, MaxLen)

ContentArgs ==
  {BuildArgs(res, ann, vws, md, DictVal({}), "", OutDir) :
     res \in {{}, {"r1"}}, ann \in AnnotLists, vws \in ViewLists, md \in MetaInputs}

\* The state before the last call of a behaviour, all directories empty.
InitContent ==
  /\ meta = [d \in Dirs |-> Absent]
  /\ csv = [d \in Dirs |-> [r \in ResNames |-> 0]]
  /\ clock = MaxCalls - 1
  /\ pc = [p \in Procs |-> "idle"]
  /\ call = [p \in Procs |-> NoCall]
  /\ loc = [p \in Procs |-> NoLoc]
  /\ last = [p \in Procs |-> NoLast]
  /\ snap = [p \in Procs |-> NoSnap]
  /\ chain = [d \in Dirs |-> -1]
  /\ cli = NoCli

NextContent ==
  \/ Invoke("p1", ContentArgs)
  \/ InvokeRejected("p1", ContentArgs)
  \/ WriteResource("p1")
  \/ CreateNode("p1")
  \/ CreateNodeFails("p1")
  \/ OpenMeta("p1")
  \/ DumpMeta("p1")
  \/ DumpMetaFails("p1")

SpecContent == InitContent /\ [][NextContent]_vars

\* ------------------------------------ two writers on the same package
\* The calls of the two writers: update_package on the package of OutDir,
\* written back to OutDir; plain calls and one for every way to fail.
TwoInputs ==
  { <<{},     <<>>,                   <<>>, DictVal({}), "">>,
    <<{"r1"}, <<StrVal("note")>>,     <<>>, DictVal({}), "">>,
    <<{},     <<PathVal("gone.md")>>, <<>>, DictVal({}), "">>,
    <<{},     <<>>, <<PathVal("gone.json")>>, DictVal({}), "">>,
    <<{},     <<>>, <<>>, PathVal("gone.yml"), "">> }

TwoArgs ==
  {UpdateArgs(OutDir, c[1], c[2], c[3], c[4], c[5], OutDir, "none") : c \in TwoInputs}

\* The package both writers update has been built, and two calls are left
\* in the behaviour.
InitTwo ==
  /\ meta = [d \in Dirs |-> IF d = OutDir THEN SeedDoc("X") ELSE Absent]
  /\ csv = [d \in Dirs |-> [r \in ResNames |-> 0]]
  /\ clock = MaxCalls - 2
  /\ pc = [p \in Procs |-> "idle"]
  /\ call = [p \in Procs |-> NoCall]
  /\ loc = [p \in Procs |-> NoLoc]
  /\ last = [p \in Procs |-> NoLast]
  /\ snap = [p \in Procs |-> NoSnap]
  /\ chain = [d \in Dirs |-> -1]
  /\ cli = NoCli

\* Two processes, each running update_package calls one after the other;
\* the steps of the two interleave in any order.
NextTwo ==
  \E p \in Procs :
    \/ Invoke(p, TwoArgs)
    \/ InvokeRejected(p, TwoArgs)
    \/ Step(p)

SpecTwo == InitTwo /\ [][NextTwo]_vars

\* ------------------------------------------------- the command line reader
\* cli.py line 208.
valid_filenames == {"datapackage.json", "datapackage.yml", "datapackage.yaml"}

\* What a directory can hold.
DirEntries == valid_filenames \cup {"notes.txt"}

\* The paths a user can give: a place that does not exist, the package
\* directory, and an entry name inside it.
CliPaths ==
  {[dir |-> "nowhere", base |-> ""], [dir |-> "pkg", base |-> ""]}
  \cup {[dir |-> "pkg", base |-> b] : b \in DirEntries}

path_exists(path, files) ==
  path.dir = "pkg" /\ (path.base = "" \/ path.base \in files)

path_isdir(path, files) == path_exists(path, files) /\ path.base = ""

\* _parse_pkg_path with the check of the file name left out.
_parse_pkg_path_any_file(path, files) ==
  IF ~path_exists(path, files) THEN {Raise("SystemExit")}
  ELSE IF path_isdir(path, files)
       THEN IF files \cap valid_filenames = {} THEN {Raise("SystemExit")}
            ELSE {Ok([dir |-> path.dir, base |-> f]) : f \in files \cap valid_filenames}
       ELSE {Ok(path)}

\* cli.py lines 188-235: the metadata file a user-given path stands for,
\* or the exit of the command.  In a directory the loop keeps the last
\* valid name that os.listdir yields, and the order of os.listdir is
\* arbitrary: any valid name of the directory can be the result.
_parse_pkg_path(path, files) ==
  IF ~path_exists(path, files) THEN {Raise("SystemExit")}
  ELSE IF path_isdir(path, files)
       THEN IF files \cap valid_filenames = {} THEN {Raise("SystemExit")}
            ELSE {Ok([dir |-> path.dir, base |-> f]) : f \in files \cap valid_filenames}
       ELSE IF path.base \in valid_filenames THEN {Ok(path)}
            ELSE {Raise("SystemExit")}

\* node_uuid=None
NoneId == 0

\* get_annots that answers an unknown id with an empty list.
get_annots_lenient(self, node_uuid) ==
  LET id == IF node_uuid = NoneId THEN self.focus ELSE node_uuid
  IN  IF id \in DOMAIN self.dag.nodes THEN Ok(self.dag.nodes[id].annot)
      ELSE Ok(<<>>)

\* datapackage.py lines 53-57.  A missing dictionary key raises KeyError.
get_annots(self, node_uuid) ==
  LET id == IF node_uuid = NoneId THEN self.focus ELSE node_uuid
  IN  IF id \in DOMAIN self.dag.nodes THEN Ok(self.dag.nodes[id].annot)
      ELSE Raise("KeyError")

\* datapackage.py lines 67-71.
get_views(self, node_uuid) ==
  LET id == IF node_uuid = NoneId THEN self.focus ELSE node_uuid
  IN  IF id \in DOMAIN self.dag.nodes THEN Ok(self.dag.nodes[id].views)
      ELSE Raise("KeyError")

\* Metadata files in the layout the reader expects: the section is under
\* "eco" and has an identity block.  Every node has content of its own.
ReaderNode(i) ==
  [SeedNode EXCEPT !.annot = <<ToString(i)>>,
                   !.views = <<DictVal({StrKey(ToString(i))})>>]

ReaderDoc(N, u) ==
  [kind |-> "doc", hasDag |-> FALSE, ns |-> ReaderNamespace, resources |-> {},
   dag |-> [uuid |-> u, nodes |-> [i \in N |-> ReaderNode(i)], edges |-> <<>>,
            metadata |-> "X"]]

\* What the package directory can hold: a document for the reader, with
\* any node as the frontier (or a frontier that names no node), or one
\* the packager wrote.
CliDocs ==
  {ReaderDoc(N, u) : N \in (SUBSET Ids) \ {{}}, u \in Ids} \cup {SeedDoc("X")}

InitCli ==
  /\ meta = [d \in Dirs |-> Absent]
  /\ csv = [d \in Dirs |-> [r \in ResNames |-> 0]]
  /\ clock = 0
  /\ pc = [p \in Procs |-> "idle"]
  /\ call = [p \in Procs |-> NoCall]
  /\ loc = [p \in Procs |-> NoLoc]
  /\ last = [p \in Procs |-> NoLast]
  /\ snap = [p \in Procs |-> NoSnap]
  /\ chain = [d \in Dirs |-> -1]
  /\ \E files \in SUBSET DirEntries, doc \in CliDocs :
       cli = [NoCli EXCEPT !.files = files, !.doc = doc]

\* cli.py lines 48 and 181: a command starts by resolving args.path.
ParsePkgPath(path) ==
  /\ cli.path = NoPath
  /\ \E r \in _parse_pkg_path(path, cli.files) :
       cli' = [cli EXCEPT !.path = path, !.pkg_path = r, !.pkg = Unset,
                          !.get_annots = NoGot, !.get_views = NoGot]
  /\ UNCHANGED pvars

\* cli.py lines 51 and 184: pkg = DataPackage(pkg_path).  Every valid
\* file of the directory holds the document cli.doc.
LoadPackage ==
  /\ cli.pkg_path.ok
  /\ cli.pkg = Unset
  /\ cli' = [cli EXCEPT !.pkg = DataPackage(cli.doc)]
  /\ UNCHANGED pvars

GetAnnots(node_uuid) ==
  /\ cli.pkg.ok
  /\ cli' = [cli EXCEPT !.get_annots =
                [node_uuid |-> node_uuid,
                 result |-> get_annots(cli.pkg.val, node_uuid)]]
  /\ UNCHANGED pvars

GetViews(node_uuid) ==
  /\ cli.pkg.ok
  /\ cli' = [cli EXCEPT !.get_views =
                [node_uuid |-> node_uuid,
                 result |-> get_views(cli.pkg.val, node_uuid)]]
  /\ UNCHANGED pvars

NextCli ==
  \/ \E path \in CliPaths : ParsePkgPath(path)
  \/ LoadPackage
  \/ \E node_uuid \in Ids \cup {NoneId} : GetAnnots(node_uuid)
  \/ \E node_uuid \in Ids \cup {NoneId} : GetViews(node_uuid)

SpecCli == InitCli /\ [][NextCli]_vars

\* ------------------------------------------------------------ properties
HasDag(f) == f.kind = "doc" /\ f.hasDag

\* The edges of g are one chain that ends at the frontier, and no node has
\* two successors or two predecessors.
IsChain(g) ==
  LET E == g.edges
      n == Len(E)
  IN  /\ \A i \in 1..n : E[i].source \in DOMAIN g.nodes /\ E[i].target \in DOMAIN g.nodes
      /\ \A i \in 1..(n - 1) : E[i].target = E[i + 1].source
      /\ \A i, j \in 1..n : E[i].source = E[j].source => i = j
      /\ \A i, j \in 1..n : E[i].target = E[j].target => i = j
      /\ \A i \in 1..n : E[i].target # E[1].source
      /\ IF n = 0 THEN g.uuid \in DOMAIN g.nodes ELSE E[n].target = g.uuid

EdgePairs(g) == {<<g.edges[i].source, g.edges[i].target>> : i \in 1..Len(g.edges)}

RECURSIVE Paths(_, _)
\* The pairs joined by a path of at most 2^k edges of R.
Paths(R, k) ==
  IF k = 0 THEN R
  ELSE LET P == Paths(R, k - 1)
       IN  P \cup {<<q[1][1], q[2][2]>> : q \in {r \in P \X P : r[1][2] = r[2][1]}}

Acyclic(g) ==
  LET P == Paths(EdgePairs(g), MaxIds)
  IN  \A x \in P : x[1] # x[2]

\* The last call of the writer returned normally / raised, and no other
\* call has started since.
Returned(op) ==
  /\ pc["p1"] = "idle"
  /\ last["p1"].args.op = op
  /\ last["p1"].result = "ok"

Failed ==
  /\ pc["p1"] = "idle"
  /\ last["p1"].result \notin {"ok", "none"}

\* C1: after one build_package and N update_package calls, each reading the
\* document the previous call wrote, the persisted graph has N+1 nodes and
\* N edges, and the edges are a single chain from the root to the node
\* named by `uuid`, no node having more than one successor.
C1_ChainOfLengthN ==
  \A d \in Dirs :
    (meta[d].kind = "doc" /\ chain[d] >= 0) =>
       /\ Cardinality(DOMAIN meta[d].dag.nodes) = chain[d] + 1
       /\ Len(meta[d].dag.edges) = chain[d]
       /\ IsChain(meta[d].dag)

\* C2: the document build_package writes has one node, no edge, and `uuid`
\* is the id of that node, whatever the output directory held before.
C2_BuildWritesRoot ==
  Returned("build") =>
     /\ HasDag(meta[OutDir])
     /\ Cardinality(DOMAIN meta[OutDir].dag.nodes) = 1
     /\ meta[OutDir].dag.edges = <<>>
     /\ meta[OutDir].dag.uuid \in DOMAIN meta[OutDir].dag.nodes

\* A build_package call returned in a directory that held a document with
\* several nodes and an edge.
C2_Witness ==
  /\ Returned("build")
  /\ snap["p1"].meta.kind = "doc"
  /\ Len(snap["p1"].meta.dag.edges) >= 1
  /\ Cardinality(DOMAIN snap["p1"].meta.dag.nodes) >= 2

\* C3: in every persisted document, `uuid` is the id of a node of `nodes`.
C3_FrontierIsNode ==
  \A d \in Dirs :
    HasDag(meta[d]) => meta[d].dag.uuid \in DOMAIN meta[d].dag.nodes

\* An update_package call returned and its document has two nodes or more.
C3_Witness ==
  /\ Returned("update")
  /\ HasDag(meta[OutDir])
  /\ Cardinality(DOMAIN meta[OutDir].dag.nodes) >= 2
  /\ meta[OutDir].dag.uuid \notin DOMAIN last["p1"].existing_mdata.dag.nodes

\* C4: in every persisted document every edge joins two nodes of the same
\* graph, and the edges contain no cycle.
C4_EdgesFormDag ==
  \A d \in Dirs :
    HasDag(meta[d]) =>
       /\ \A i \in 1..Len(meta[d].dag.edges) :
            /\ meta[d].dag.edges[i].source \in DOMAIN meta[d].dag.nodes
            /\ meta[d].dag.edges[i].target \in DOMAIN meta[d].dag.nodes
       /\ Acyclic(meta[d].dag)

\* C5: update_package leaves the dataset identity of the loaded document
\* unchanged in the document it writes, whatever keyword arguments it got.
C5_IdentityCarriedOver ==
  Returned("update") =>
     meta[OutDir].dag.metadata = last["p1"].existing_mdata.dag.metadata

\* An update_package call that was given identity-like keyword arguments
\* returned, on a document that has a dataset identity.
C5_Witness ==
  /\ Returned("update")
  /\ last["p1"].args.kwargs = "Z"
  /\ last["p1"].existing_mdata.dag.metadata = "X"

ValidationErrors == {"mdata validation failed!", "Unrecognized profile specified!"}

\* C6: with a non-empty profile, metadata that fails validation makes the
\* call fail, and datapackage.json of the output directory is then as it was
\* before the call.
C6_ValidationFailureWritesNothing ==
  /\ (pc["p1"] = "idle" /\ last["p1"].args.profile # ""
        /\ last["p1"].result \in ValidationErrors)
       => meta[OutDir] = snap["p1"].meta
  /\ (pc["p1"] = "idle" /\ last["p1"].args.profile # "" /\ last["p1"].result = "ok")
       => StrKey(last["p1"].args.profile)
            \in DOMAIN _parse_metadata(last["p1"].args.metadata).val.d

\* An update_package call failed validation in a directory that holds a
\* document.
C6_Witness ==
  /\ pc["p1"] = "idle"
  /\ last["p1"].args.op = "update"
  /\ last["p1"].args.profile = "biodat"
  /\ last["p1"].result = "mdata validation failed!"
  /\ snap["p1"].meta.kind = "doc"
  /\ Cardinality(DOMAIN snap["p1"].meta.dag.nodes) >= 1

\* C7: when writing the metadata document fails part-way, the previous
\* valid datapackage.json of the output directory is left intact.
C7_FailedWriteKeepsPrevious ==
  (pc["p1"] = "idle" /\ last["p1"].result = "TypeError"
      /\ snap["p1"].meta.kind = "doc")
    => meta[OutDir] = snap["p1"].meta

\* C8: a reader that opens datapackage.json at any instant finds it absent
\* or finds a complete document, never a half-written one.
C8_ReaderNeverSeesHalfWritten ==
  \A d \in Dirs : DataPackage_init(meta[d]) # "JSONDecodeError"

\* C9: a call that fails on a validation or resolution error has written no
\* file: the output directory, resource files and metadata file, is as it
\* was before the call.
C9_FailedCallWritesNothing ==
  Failed =>
     /\ meta[OutDir] = snap["p1"].meta
     /\ csv[OutDir] = snap["p1"].csv

\* ---- C10
\* The inputs the documentation of build_package allows: an annotation is
\* a string or the path of an existing file, a view is a dict or the path
\* of an existing JSON file, metadata is a dict or the path of an existing
\* yml/json file.
ValidAnnotation(e) == e.k = "str" \/ os_path_exists(e.s)
ValidView(e)       == e.k = "dict" \/ (os_path_exists(e.s) /\ FileDoc(e.s).ok)
ValidMetadata(m)   == m.k = "dict" \/ (os_path_exists(m.s) /\ FileDoc(m.s).ok)

ValidInputs(a) ==
  /\ \A i \in 1..Len(a.annotations) : ValidAnnotation(a.annotations[i])
  /\ \A i \in 1..Len(a.views) : ValidView(a.views[i])
  /\ ValidMetadata(a.metadata)

\* What an input stands for: the contents of the file it names, else itself.
ResolvedAnnotation(e) == IF os_path_exists(e.s) THEN FileText(e.s) ELSE e.s
ResolvedDocument(e)   == IF e.k = "dict" THEN e ELSE FileDoc(e.s).val

\* json.load of the written document, and its node named by `uuid`.
RootNode == meta[OutDir].dag.nodes[meta[OutDir].dag.uuid]

ReadBackEqualsInputs(a) ==
  /\ RootNode.annot =
       [i \in 1..Len(a.annotations) |-> ResolvedAnnotation(a.annotations[i])]
  /\ RootNode.views =
       [i \in 1..Len(a.views) |-> ResolvedDocument(a.views[i])]
  /\ RootNode.metadata = ResolvedDocument(a.metadata)

\* Every mapping among the inputs has string keys only.
StringKeyed(a) ==
  /\ \A i \in 1..Len(a.views) :
       \A k \in DOMAIN ResolvedDocument(a.views[i]).d : k.t = "str"
  /\ \A k \in DOMAIN ResolvedDocument(a.metadata).d : k.t = "str"

\* C10 as stated: for all valid inputs, the root node read back from the
\* document build_package wrote has `annot`, `views` and `metadata` equal
\* to the resolved inputs, element by element and in order.
C10_ReadBackAnyValidInput ==
  (Returned("build") /\ ValidInputs(last["p1"].args))
    => ReadBackEqualsInputs(last["p1"].args)

\* C10 amended: the same, for valid inputs whose mappings (views and
\* metadata, given directly or loaded from a file) have string keys only.
C10_ReadBackStringKeyed ==
  (Returned("build") /\ ValidInputs(last["p1"].args) /\ StringKeyed(last["p1"].args))
    => ReadBackEqualsInputs(last["p1"].args)

\* A build_package call returned that was given a file-sourced and a
\* literal annotation, a file-sourced view and non-empty metadata.
C10_Witness ==
  /\ Returned("build")
  /\ ValidInputs(last["p1"].args)
  /\ StringKeyed(last["p1"].args)
  /\ Len(last["p1"].args.annotations) = 2
  /\ last["p1"].args.annotations[1].k = "path"
  /\ RootNode.annot[1] = FileText(last["p1"].args.annotations[1].s)
  /\ ~os_path_exists(last["p1"].args.annotations[2].s)
  /\ RootNode.annot[2] = last["p1"].args.annotations[2].s
  /\ \E i \in 1..Len(last["p1"].args.views) : last["p1"].args.views[i].k = "path"
  /\ DOMAIN RootNode.metadata.d # {}

\* The keys of the provenance section of a written document: what
\* build_dag and update_dag put there, the identity block only when the
\* document carries one.
SectionKeys(dag) ==
  (DOMAIN dag) \ (IF dag.metadata = "none" THEN {"metadata"} ELSE {})

\* C11: every extra keyword argument k = v given to build_package or
\* update_package is in the provenance section of the written document,
\* as key k with value v.
C11_KwargsInDocument ==
  \A op \in {"build", "update"} :
    (Returned(op) /\ last["p1"].args.kwargs # "none") =>
       LET k == last["p1"].args.kwargs
           section == meta[OutDir].dag
       IN  /\ k \in SectionKeys(section)
           /\ section[k] = k

\* C12: the document written by build_package and update_package keeps the
\* provenance graph under the top-level key "eco", and the DataPackage
\* reader loads it and exposes the same frontier id, nodes and edges.
C12_ReaderLoadsWrittenDocument ==
  \A op \in {"build", "update"} :
    Returned(op) =>
       LET f  == meta[OutDir]
           dp == DataPackage(f)
       IN  /\ f.ns = "eco"
           /\ dp.ok
           /\ dp.val.uuid = f.dag.uuid
           /\ dp.val.dag.nodes = f.dag.nodes
           /\ dp.val.dag.edges = f.dag.edges

\* C13: on a loaded DataPackage, get_annots and get_views without a node id
\* return the annotations and views of the node that the document's `uuid`
\* names; with an id that is in no node of the graph they fail with the
\* unknown-key error and return nothing.
C13_ReadFocusOrFail ==
  cli.pkg.ok =>
    LET g == cli.doc.dag
    IN  /\ (cli.get_annots.result # Unset /\ g.uuid \in DOMAIN g.nodes
               /\ cli.get_annots.node_uuid = NoneId)
              => cli.get_annots.result = Ok(g.nodes[g.uuid].annot)
        /\ (cli.get_views.result # Unset /\ g.uuid \in DOMAIN g.nodes
               /\ cli.get_views.node_uuid = NoneId)
              => cli.get_views.result = Ok(g.nodes[g.uuid].views)
        /\ (cli.get_annots.result # Unset
               /\ cli.get_annots.node_uuid \notin DOMAIN g.nodes \cup {NoneId})
              => cli.get_annots.result = Raise("KeyError")
        /\ (cli.get_views.result # Unset
               /\ cli.get_views.node_uuid \notin DOMAIN g.nodes \cup {NoneId})
              => cli.get_views.result = Raise("KeyError")

\* A document of three nodes whose frontier is neither the least nor the
\* greatest id: the annotations were read without an id, the views with an
\* id that is not in the graph.
C13_Witness ==
  /\ cli.pkg.ok
  /\ Cardinality(DOMAIN cli.doc.dag.nodes) = 3
  /\ \E i, j \in DOMAIN cli.doc.dag.nodes : i < cli.doc.dag.uuid /\ cli.doc.dag.uuid < j
  /\ cli.get_annots.node_uuid = NoneId
  /\ cli.get_annots.result = Ok(<<ToString(cli.doc.dag.uuid)>>)
  /\ cli.get_views.node_uuid \in Ids \ DOMAIN cli.doc.dag.nodes
  /\ cli.get_views.result = Raise("KeyError")

\* The provenance section update_package loaded, and the one it wrote.
LoadedDag  == last["p1"].existing_mdata.dag
WrittenDag == meta[OutDir].dag

\* C14: update_package never returns normally with a new node whose id was
\* already an id of the loaded `nodes` (such a call fails with
\* DuplicateNodeId), so no existing node entry is ever replaced.
C14_DuplicateIdRejected ==
  Returned("update") => WrittenDag.uuid \notin DOMAIN LoadedDag.nodes

\* The file `existing` as it was when the last call began: the call
\* writes no metadata file but that of its output directory.
ExistingAtCall ==
  IF last["p1"].args.existing = last["p1"].args.pkg_dir
  THEN snap["p1"].meta
  ELSE meta[last["p1"].args.existing]

\* C15: an update_package call whose `existing` file does not exist, cannot
\* be parsed or has no provenance section fails, and the datapackage.json
\* of the output directory is what it was before the call.
C15_BadExistingWritesNoMetadata ==
  (/\ pc["p1"] = "idle"
   /\ last["p1"].args.op = "update"
   /\ LoadOutcome(ExistingAtCall) # "ok")
  => /\ last["p1"].result # "ok"
     /\ meta[OutDir] = snap["p1"].meta

\* The output directory holds a document, the call wrote a resource file
\* there and then failed on an existing document without a provenance
\* section.
C15_Witness ==
  /\ Failed
  /\ last["p1"].args.op = "update"
  /\ last["p1"].args.existing = "d2"
  /\ last["p1"].args.resources # {}
  /\ \E r \in last["p1"].args.resources : csv[OutDir][r] = clock
  /\ meta["d2"] = ForeignDoc
  /\ last["p1"].result = "KeyError"
  /\ snap["p1"].meta.kind = "doc"
  /\ meta[OutDir] = snap["p1"].meta

\* C16: the document written by build_package holds the DAG-level metadata
\* the caller gave as dag_metadata: every key of the parsed mapping is in
\* the provenance section, with the value given.
C16_DagMetadataInDocument ==
  Returned("build") =>
    LET dag_mdata == _parse_metadata(last["p1"].args.dag_metadata).val.d
    IN  \A k \in DOMAIN dag_mdata :
          /\ k.v \in SectionKeys(WrittenDag)
          /\ WrittenDag[k.v] = dag_mdata[k]

\* C17: _parse_pkg_path gives, for a directory, the path of an entry of
\* that directory named datapackage.json, datapackage.yml or
\* datapackage.yaml, and no path when the directory has none; for a file,
\* that path when its basename is one of the three names and no path
\* otherwise; for a path that does not exist, no path.  It never gives a
\* path whose basename is another name.
C17_ParsePkgPath ==
  cli.path # NoPath =>
    LET names == {"datapackage.json", "datapackage.yml", "datapackage.yaml"}
        r     == cli.pkg_path
    IN  /\ ~path_exists(cli.path, cli.files) => ~r.ok
        /\ path_isdir(cli.path, cli.files) =>
              IF cli.files \cap names = {} THEN ~r.ok
              ELSE /\ r.ok
                   /\ r.val.dir = cli.path.dir
                   /\ r.val.base \in cli.files \cap names
        /\ (path_exists(cli.path, cli.files) /\ ~path_isdir(cli.path, cli.files)) =>
              IF cli.path.base \in names THEN r = Ok(cli.path) ELSE ~r.ok
        /\ r.ok => r.val.base \in names

\* A directory with two valid names and another file was resolved to
\* datapackage.yml.
C17_Witness ==
  /\ cli.path = [dir |-> "pkg", base |-> ""]
  /\ cli.files = {"datapackage.json", "datapackage.yml", "notes.txt"}
  /\ cli.pkg_path = Ok([dir |-> "pkg", base |-> "datapackage.yml"])

\* C18: a successful update_package is exactly one append: the new node is
\* stored under an id that no loaded node had and no other node is added
\* or dropped, `edges` is the loaded list followed by the one edge from the
\* loaded `uuid` to the new id, and `uuid` is the new id.
C18_ExactlyOneAppend ==
  Returned("update") =>
    /\ WrittenDag.uuid \notin DOMAIN LoadedDag.nodes
    /\ DOMAIN WrittenDag.nodes = DOMAIN LoadedDag.nodes \cup {WrittenDag.uuid}
    /\ WrittenDag.edges =
         Append(LoadedDag.edges,
                [source |-> LoadedDag.uuid, target |-> WrittenDag.uuid])

\* C19: after a successful update_package every node of the loaded
\* document is in the written document with the same content, and the
\* loaded edge list is a prefix of the written one.
C19_HistoryIsPermanent ==
  Returned("update") =>
    /\ \A i \in DOMAIN LoadedDag.nodes :
         /\ i \in DOMAIN WrittenDag.nodes
         /\ WrittenDag.nodes[i] = LoadedDag.nodes[i]
    /\ Len(LoadedDag.edges) <= Len(WrittenDag.edges)
    /\ SubSeq(WrittenDag.edges, 1, Len(LoadedDag.edges)) = LoadedDag.edges

\* C20: in every call of build_package and update_package the metadata
\* file is the last file written: when the write of datapackage.json is
\* about to begin or under way, every resource file of the call has been
\* written, and from the step that begins it to the end of the call no
\* resource file is written.
C20_MetadataWrittenLast ==
  /\ [](pc["p1"] \in {"open", "dump"} =>
          /\ loc["p1"].pending = {}
          /\ \A r \in call["p1"].resources : csv[call["p1"].pkg_dir][r] = clock)
  /\ [][(pc["p1"] = "dump" \/ meta' # meta) => csv' = csv]_vars

\* An update_package call with a resource has opened datapackage.json for
\* writing: the resource file is there, written by this call.
C20_Witness ==
  /\ pc["p1"] = "dump"
  /\ call["p1"].op = "update"
  /\ call["p1"].resources # {}
  /\ \A r \in call["p1"].resources : csv[OutDir][r] = clock
  /\ snap["p1"].csv # csv[OutDir]
  /\ meta[OutDir] = Partial

\* The last call was a build_package call that got past the parsing of
\* its metadata and has ended.
BuildEnded ==
  /\ pc["p1"] = "idle"
  /\ last["p1"].args.op = "build"
  /\ last["p1"].result # "none"
  /\ Precheck(last["p1"].args) = {"ok"}

\* C21: an annotation entry that names an existing file becomes that
\* file's text, given as a string or as a path object; an entry that names
\* no existing file is kept verbatim when it is a string, and makes the
\* call fail with the invalid-annotation error when it is a path object.
C21_AnnotationResolution ==
  BuildEnded =>
    LET annotations == last["p1"].args.annotations
        unresolved  == {i \in 1..Len(annotations) :
                          annotations[i].k = "path" /\ ~os_path_exists(annotations[i].s)}
    IN  /\ unresolved # {} => last["p1"].result = "Invalid annotation path provided"
        /\ last["p1"].result = "ok" =>
              /\ unresolved = {}
              /\ Len(RootNode.annot) = Len(annotations)
              /\ \A i \in 1..Len(annotations) :
                   RootNode.annot[i] =
                     IF os_path_exists(annotations[i].s)
                     THEN FileText(annotations[i].s)
                     ELSE annotations[i].s

\* The same file named once as a string and once as a path object: both
\* entries became the file's text.
C21_Witness ==
  /\ Returned("build")
  /\ last["p1"].args.annotations = <<StrVal("overview.md"), PathVal("overview.md")>>
  /\ RootNode.annot = <<"# overview", "# overview">>

\* C22: a view entry that names an existing JSON file becomes the parsed
\* file, a structured document is used as it is, and a string or path that
\* names no existing file makes the call fail in view resolution; so every
\* element of `views` in a written node is a structured document.
C22_ViewResolution ==
  (BuildEnded /\ \A i \in 1..Len(last["p1"].args.annotations) :
                    ValidAnnotation(last["p1"].args.annotations[i])) =>
    LET views      == last["p1"].args.views
        unresolved == {i \in 1..Len(views) :
                         views[i].k \in {"str", "path"} /\ ~os_path_exists(views[i].s)}
    IN  /\ unresolved # {} => last["p1"].result \notin {"ok", "TypeError"}
        /\ last["p1"].result = "ok" =>
              /\ Len(RootNode.views) = Len(views)
              /\ \A i \in 1..Len(views) :
                   /\ RootNode.views[i].k = "dict"
                   /\ RootNode.views[i] = JsonValue(ResolvedDocument(views[i]))

\* C23: the `resources` list of the document written by update_package
\* describes exactly the resource files that call wrote; a resource of an
\* earlier stage that the call did not supply is not listed, even when its
\* file is still in the output directory.
C23_ResourcesOfThisCallOnly ==
  Returned("update") => meta[OutDir].resources = last["p1"].args.resources

\* The last call asked for validation against a known profile and gave
\* empty metadata.
EmptyMetadataValidated ==
  /\ pc["p1"] = "idle"
  /\ last["p1"].result # "none"
  /\ last["p1"].args.profile \in AllowedProfiles
  /\ last["p1"].args.kwargs = "none"
  /\ _parse_metadata(last["p1"].args.metadata).ok
  /\ DOMAIN _parse_metadata(last["p1"].args.metadata).val.d = {}

\* C24 as stated: validation against a profile is one pass that gives one
\* report; with empty metadata the call fails and the report lists the
\* field the profile schema requires (`species`) as missing.
C24_ReportListsRequiredField ==
  EmptyMetadataValidated =>
    /\ last["p1"].result = "mdata validation failed!"
    /\ \E path \in last["p1"].errors : path[Len(path)] = "species"

\* C24 amended: with empty metadata the call fails and the one report
\* lists the sub-document named after the profile as the missing field,
\* and none of the fields the profile schema requires below it.
C24_ReportListsProfileKey ==
  EmptyMetadataValidated =>
    /\ last["p1"].result = "mdata validation failed!"
    /\ <<last["p1"].args.profile>> \in last["p1"].errors
    /\ \A path \in last["p1"].errors : path[Len(path)] \notin ProfileFields

\* build_package with profile biodat and metadata {} has failed, with a
\* resource to write.
C24_Witness ==
  /\ EmptyMetadataValidated
  /\ last["p1"].args.op = "build"
  /\ last["p1"].args.profile = "biodat"
  /\ last["p1"].args.resources # {}
  /\ last["p1"].result = "mdata validation failed!"
  /\ last["p1"].errors = {<<"biodat">>}

\* `uuid` names a node, every edge joins two nodes, and there is one edge
\* less than there are nodes.
WellFormedChain(g) ==
  /\ g.uuid \in DOMAIN g.nodes
  /\ \A i \in 1..Len(g.edges) :
       g.edges[i].source \in DOMAIN g.nodes /\ g.edges[i].target \in DOMAIN g.nodes
  /\ Len(g.edges) = Cardinality(DOMAIN g.nodes) - 1

\* C25: while two update_package runs on the same package interleave,
\* every document that is persisted is a well-formed single chain.
C25_InterleavedUpdatesKeepChain ==
  \A d \in Dirs : HasDag(meta[d]) => WellFormedChain(meta[d].dag)

\* C26: after update_package with an output directory other than the
\* directory of the existing document, the existing document is what was
\* loaded, and the document of the output directory has the new edge, to
\* the node its `uuid` names.
C26_ExistingLeftUnchanged ==
  (Returned("update") /\ last["p1"].args.existing # last["p1"].args.pkg_dir) =>
    /\ meta[last["p1"].args.existing] = last["p1"].existing_mdata
    /\ WrittenDag.uuid \in DOMAIN WrittenDag.nodes
    /\ Len(WrittenDag.edges) = Len(LoadedDag.edges) + 1
    /\ WrittenDag.edges[Len(WrittenDag.edges)] =
         [source |-> LoadedDag.uuid, target |-> WrittenDag.uuid]

\* The package of d2 was updated into d1 under a new id: d2 still holds
\* its one node and no edge, d1 holds two nodes and the edge.
C26_Witness ==
  /\ Returned("update")
  /\ last["p1"].args.existing = "d2"
  /\ meta["d2"] = SeedDoc("X")
  /\ Cardinality(DOMAIN WrittenDag.nodes) = 2
  /\ WrittenDag.uuid # 1
  /\ WrittenDag.edges = <<[source |-> 1, target |-> WrittenDag.uuid]>>

====
